---- MODULE Spec2Model ----
(***************************************************************************)
(* CRAWL-E fetch engine (crawle.py): the per-endpoint connection pools and *)
(* their LRU cache, the request pipeline of HTTPConnectionControl.request, *)
(* the ControlThread worker loop and the Controller.                       *)
(*                                                                         *)
(* Python objects are modelled by value.  A connection is the record       *)
(* [request_count, closed]; a QueueNode is identified with the key it is   *)
(* stored under in CQueueLRU.table (the table holds one node per key), so  *)
(* the node pointers next / prev / newest / oldest range over keys and     *)
(* NoKey.  Python's None is the integer None for numbers and the strings   *)
(* NoKey / NoUrl / NoError for references.                                 *)
(***************************************************************************)
EXTENDS Integers, Sequences, FiniteSets, TLC

\* ------------------------------------------------------------------ bounds
NumThreads == 2      \* worker threads the Controller creates
MaxItems == 2        \* descriptors the queue ever holds (seeded + re-queued)
MaxRedirects == 1    \* largest redirect budget a descriptor carries
MaxQueues == 1       \* largest max_queues configured
MaxConn == 1         \* largest max_conn configured
MaxLimit == 1        \* largest REQUEST_LIMIT configured

\* --------------------------------------------------------------- constants
None == -1
EMPTY_QUEUE_RETRYS == 1
NoKey == "None"
NoUrl == "None"
NoError == "None"

Threads == 1..NumThreads

\* URLs are abstracted to their host; FtpUrl stands for any URL whose scheme
\* is not http/https or whose netloc is empty.
HttpUrls == {"a", "b"}
FtpUrl == "ftp"
Urls == HttpUrls \cup {FtpUrl}

\* urlparse + gethostbyname: the (address, encrypted) key of an http URL.
\* Every host of the model resolves to its own address.  OtherKey is an
\* endpoint that a client of the cache other than the crawl uses.
OtherKey == "c"
Keys == HttpUrls \cup {OtherKey}
EndpointKey(url) == url
Hostname(url) == url

\* The statuses the modelled servers answer with.
Statuses == {200, 302}
RedirectStatuses == {301, 302, 303}

\* ----------------------------------------------------------------- headers
Absent == "<absent>"
CallerValue == "X"
HeaderNames == {"Accept", "Accept-Encoding", "Accept-Language",
                "Accept-Languge", "Host", "User-Agent", "Content-Type"}
HEADER_DEFAULTS == [h \in {"Accept", "Accept-Language", "User-Agent"} |->
                      CASE h = "Accept" -> "*/*"
                        [] h = "Accept-Language" -> "en-us,en;q=0.8"
                        [] OTHER -> "CRAWL-E/0.5.1"]
EmptyHeaders == [h \in HeaderNames |-> Absent]
\* A Python mapping of headers: a total function, Absent for a missing key.
HeaderMaps == [HeaderNames -> {Absent, CallerValue}]
Truthy(headers) == \E h \in HeaderNames : headers[h] # Absent

\* lines 298-311 and 318-320: the headers local of request().  `own` is
\* req_res.request_headers (EmptyHeaders when it is None or {}).
SetDefault(headers, test, name, value) ==
    IF headers[test] = Absent THEN [headers EXCEPT ![name] = value] ELSE headers

HeaderDefaults(own, hostname) ==
    LET h0 == IF Truthy(own) THEN own ELSE EmptyHeaders
        h1 == SetDefault(h0, "Accept", "Accept", HEADER_DEFAULTS["Accept"])
        h2 == SetDefault(h1, "Accept-Encoding", "Accept-Encoding", "gzip")
        h3 == SetDefault(h2, "Accept-Languge", "Accept-Language",
                         HEADER_DEFAULTS["Accept-Language"])
        h4 == SetDefault(h3, "Host", "Host", hostname)
    IN  SetDefault(h4, "User-Agent", "User-Agent", HEADER_DEFAULTS["User-Agent"])

ContentType(headers, request_params) ==
    IF request_params
    THEN [headers EXCEPT !["Content-Type"] = "application/x-www-form-urlencoded"]
    ELSE headers

VARIABLES
    max_queues,       \* CQueueLRU.max_queues (None: unbounded)
    max_conn,         \* HTTPConnectionQueue.max_conn (None: unbounded)
    REQUEST_LIMIT,    \* HTTPConnectionQueue.REQUEST_LIMIT (None: no limit)
    STOP_CRAWLE,      \* the module-level stop flag
    stop_wait_event,  \* ControlThread.stop_wait_event
    cq_lru,           \* the CQueueLRU: table, list pointers, pools
    locked,           \* CQueueLRU.lock is held
    qlen,             \* items waiting in the crawl queue
    made,             \* items ever put in the crawl queue
    seeded,           \* items the queue was seeded with
    queue_error,      \* queue.get has raised
    nprocess,         \* calls of handler.process so far
    open_conns,       \* connections created and not closed
    ctl,              \* the Controller: [state, i]
    pc,               \* each worker's position in ControlThread.run
    rr,               \* each worker's request_response
    retry_count,      \* each worker's retry_count
    woken,            \* the event was set when the worker's wait returned
    loc               \* each worker's locals inside request()

vars == <<max_queues, max_conn, REQUEST_LIMIT, STOP_CRAWLE, stop_wait_event,
          cq_lru, locked, qlen, made, seeded, queue_error, nprocess,
          open_conns, ctl, pc, rr, retry_count, woken, loc>>

\* ------------------------------------------------- HTTPConnectionQueue
connection_object == [request_count |-> 0, closed |-> FALSE]
NoConn == [request_count |-> None, closed |-> FALSE]

HTTPConnectionQueue_init == [queue |-> <<>>, connections |-> 0]

\* A destroy that drops the queued connections without closing them.
HTTPConnectionQueue_destroy_Drops(p) ==
    [pool |-> [p EXCEPT !.queue = <<>>], nclosed |-> 0]

\* destroy(): every queued connection is closed; `connections` is not reset.
HTTPConnectionQueue_destroy(p) ==
    [pool |-> [p EXCEPT !.queue = <<>>], nclosed |-> Len(p.queue)]

\* A limit test that lets a connection at the limit through.
LimitReached_Above(connection) ==
    /\ REQUEST_LIMIT # None
    /\ REQUEST_LIMIT # 0
    /\ connection.request_count > REQUEST_LIMIT

\* lines 140-141
LimitReached(connection) ==
    /\ REQUEST_LIMIT # None
    /\ REQUEST_LIMIT # 0
    /\ connection.request_count >= REQUEST_LIMIT

\* A get that never reuses a queued connection.
HTTPConnectionQueue_get_AlwaysNew(p) ==
    [pool |-> p, connection |-> connection_object,
     created |-> 1, nclosed |-> 0]

\* get(): [pool, connection, created, nclosed]
HTTPConnectionQueue_get(p) ==
    IF p.queue # <<>>
    THEN LET connection == Head(p.queue)
             q == [queue |-> Tail(p.queue), connections |-> p.connections - 1]
         IN  IF LimitReached(connection)
             THEN [pool |-> q, connection |-> connection_object,
                   created |-> 1, nclosed |-> 1]
             ELSE [pool |-> q, connection |-> connection,
                   created |-> 0, nclosed |-> 0]
    ELSE [pool |-> p, connection |-> connection_object,
          created |-> 1, nclosed |-> 0]

\* A capacity test on the current rather than the projected size.
PoolFull_Current(p) == max_conn # None /\ p.connections > max_conn

\* line 153
PoolFull(p) == max_conn # None /\ p.connections + 1 > max_conn

\* put(): [pool, nclosed]
HTTPConnectionQueue_put(p, connection) ==
    LET c == [connection EXCEPT !.request_count = @ + 1]
    IN  IF PoolFull(p)
        THEN [pool |-> p, nclosed |-> 1]
        ELSE [pool |-> [queue |-> Append(p.queue, c),
                        connections |-> p.connections + 1],
              nclosed |-> 0]

\* ----------------------------------------------------------- CQueueLRU
CQueueLRU_init ==
    [table |-> {},
     next |-> [k \in Keys |-> NoKey],
     prev |-> [k \in Keys |-> NoKey],
     newest |-> NoKey,
     oldest |-> NoKey,
     pool |-> [k \in Keys |-> HTTPConnectionQueue_init]]

\* A lookup that creates the pool of an untracked key, as a release does.
CQueueLRU_getitem_Inserts(l, key) ==
    LET l1 == IF key \in l.table THEN l
              ELSE [l EXCEPT !.table = @ \cup {key},
                             !.next[key] = l.newest,
                             !.newest = key]
        r == HTTPConnectionQueue_get(l1.pool[key])
    IN  [lru |-> [l1 EXCEPT !.pool[key] = r.pool],
         connection |-> r.connection,
         created |-> r.created, nclosed |-> r.nclosed]

\* __getitem__ (between lock.acquire and lock.release):
\* [lru, connection, created, nclosed]
CQueueLRU_getitem(l, key) ==
    IF key \in l.table
    THEN LET r == HTTPConnectionQueue_get(l.pool[key])
         IN  [lru |-> [l EXCEPT !.pool[key] = r.pool],
              connection |-> r.connection,
              created |-> r.created, nclosed |-> r.nclosed]
    ELSE [lru |-> l, connection |-> connection_object,
          created |-> 1, nclosed |-> 0]

\* The outcome of a step of __setitem__: the cache, whether it raised, and
\* the connections closed by the pools destroyed so far.
Raised(l, n) == [lru |-> l, raised |-> TRUE, nclosed |-> n, put_closed |-> 0]
Returned(l, n) == [lru |-> l, raised |-> FALSE, nclosed |-> n, put_closed |-> 0]

\* A release of a tracked key that leaves the list as it is.
MoveToHead_Stays(l, node) == Returned(l, 0)

\* lines 229-237: move the node to the head of the list.  An attribute of
\* None raises AttributeError with the assignments made so far kept.
MoveToHead(l, node) ==
    IF l.newest = node THEN Returned(l, 0)
    ELSE IF l.prev[node] = NoKey THEN Raised(l, 0)
    ELSE LET l1 == [l EXCEPT !.next[l.prev[node]] = l.next[node]]
         IN  IF l1.oldest # node /\ l1.next[node] = NoKey THEN Raised(l1, 0)
             ELSE LET l2 == IF l1.oldest # node
                            THEN [l1 EXCEPT !.prev[l1.next[node]] = l1.prev[node]]
                            ELSE [l1 EXCEPT !.oldest = l1.prev[node]]
                      l3 == [l2 EXCEPT !.prev[node] = NoKey,
                                       !.next[node] = l2.newest]
                      l4 == [l3 EXCEPT !.newest = node]
                  IN  IF l3.next[node] = NoKey THEN Raised(l4, 0)
                      ELSE Returned([l4 EXCEPT !.prev[l3.next[node]] = node], 0)

\* A remove that destroys the pool but leaves the predecessor linked to the
\* removed node.
QueueNode_remove_NoUnlink(l, node) ==
    LET d == HTTPConnectionQueue_destroy(l.pool[node])
    IN  [lru |-> [l EXCEPT !.pool[node] = HTTPConnectionQueue_init],
         nclosed |-> d.nclosed]

\* QueueNode.remove() of the node `node`, then the node is garbage.
QueueNode_remove(l, node) ==
    LET d == HTTPConnectionQueue_destroy(l.pool[node])
        l1 == IF l.prev[node] # NoKey
              THEN [l EXCEPT !.next[l.prev[node]] = NoKey] ELSE l
    IN  [lru |-> [l1 EXCEPT !.prev[node] = NoKey, !.next[node] = NoKey,
                            !.pool[node] = HTTPConnectionQueue_init],
         nclosed |-> d.nclosed]

\* An eviction test on the current rather than the projected size.
TooMany_Current(l) == max_queues # None /\ Cardinality(l.table) > max_queues

\* lines 240-241
TooMany(l) == max_queues # None /\ Cardinality(l.table) + 1 > max_queues

\* lines 240-247: delete the oldest while too many.
RECURSIVE EvictOldest(_, _)
EvictOldest(l, n) ==
    IF ~TooMany(l) THEN Returned(l, n)
    ELSE LET l1 == IF l.oldest = l.newest THEN [l EXCEPT !.newest = NoKey] ELSE l
         IN  IF l1.oldest = NoKey \/ l1.oldest \notin l1.table
             THEN Raised(l1, n)
             ELSE LET node == l1.oldest
                      prev == l1.prev[node]
                      l2 == [l1 EXCEPT !.table = @ \ {node}]
                      r == QueueNode_remove(l2, node)
                  IN  EvictOldest([r.lru EXCEPT !.oldest = prev], n + r.nclosed)

\* lines 248-254: QueueNode(connection_queue, key, self.newest) linked in.
QueueNode_init(l, key) ==
    LET l1 == [l EXCEPT !.pool[key] = HTTPConnectionQueue_init,
                        !.next[key] = l.newest,
                        !.prev[key] = NoKey]
        l2 == IF l.newest # NoKey THEN [l1 EXCEPT !.prev[l.newest] = key] ELSE l1
        l3 == [l2 EXCEPT !.newest = key]
        l4 == IF l3.oldest = NoKey THEN [l3 EXCEPT !.oldest = key] ELSE l3
    IN  [l4 EXCEPT !.table = @ \cup {key}]

\* __setitem__ (after lock.acquire): [lru, raised, nclosed, put_closed],
\* nclosed counting every connection closed and put_closed those closed by
\* put().  When it raises the lock is never released.
CQueueLRU_setitem(l, key, connection) ==
    LET s == IF key \in l.table THEN MoveToHead(l, key)
             ELSE LET e == EvictOldest(l, 0)
                  IN  IF e.raised THEN e
                      ELSE Returned(QueueNode_init(e.lru, key), e.nclosed)
    IN  IF s.raised THEN s
        ELSE LET r == HTTPConnectionQueue_put(s.lru.pool[key], connection)
             IN  [lru |-> [s.lru EXCEPT !.pool[key] = r.pool],
                  raised |-> FALSE,
                  nclosed |-> s.nclosed + r.nclosed,
                  put_closed |-> r.nclosed]

\* -------------------------------------------------------- RequestResponse
\* RequestResponse.__init__.  request_headers None and {} are both
\* EmptyHeaders (the code only tests their truth value).  redirects0,
\* caller_headers, nreq, npre and processed observe the run: the budget and
\* headers the descriptor was built with, the network requests dispatched,
\* the pre_process calls and the handler.process calls made for it.
RequestResponse(url, headers, params, redirects) ==
    [response_url |-> url, request_headers |-> headers,
     request_params |-> params, redirects |-> redirects,
     error |-> NoError, response_status |-> None, response_body |-> FALSE,
     extra |-> <<>>,
     redirects0 |-> redirects, caller_headers |-> headers,
     nreq |-> 0, npre |-> 0, processed |-> 0]

NoRR == RequestResponse(NoUrl, EmptyHeaders, FALSE, None)

Budgets == {None} \cup (0..MaxRedirects)

\* What queue.get may return: URLQueue builds RequestResponse(url); another
\* queue may return descriptors with any budget.
QueueDescriptors ==
    {RequestResponse(u, EmptyHeaders, FALSE, n) : u \in Urls, n \in Budgets}

\* Descriptors whose caller set any subset of the default headers.
CallerHeaderMaps == {h \in HeaderMaps : h["Content-Type"] = Absent}
HeaderDescriptors ==
    {RequestResponse(u, h, p, n) :
        u \in {"a"}, h \in CallerHeaderMaps, p \in BOOLEAN, n \in {None, 1}}

\* The locals of one request() frame: the endpoint key, the headers passed
\* to connection.request, the leased connection, the response.  leased,
\* reset, dispatched, released, closed, pool_closed and evicted observe the
\* attempt: a lease was taken, the pool replaced a connection at its request
\* limit, the request was sent, calls of cq_lru.__setitem__ with the
\* connection, calls of connection.close() by request(), closes made by
\* HTTPConnectionQueue.put, and endpoints evicted by the release.
NoLoc == [key |-> NoKey, headers |-> EmptyHeaders, connection |-> NoConn,
          status |-> None,
          leased |-> FALSE, reset |-> FALSE, dispatched |-> FALSE,
          released |-> 0, closed |-> 0, pool_closed |-> 0, evicted |-> 0]

\* -------------------------------------------------------------------- Init
\* The state after construction, whatever the configuration: Controller.__init__
\* resets STOP_CRAWLE and creates the threads (lines 453-463), CQueueLRU.__init__
\* (lines 199-204), and a queue seeded with any number of descriptors.
Constructed ==
    /\ STOP_CRAWLE = FALSE
    /\ stop_wait_event = FALSE
    /\ cq_lru = CQueueLRU_init
    /\ locked = FALSE
    /\ seeded \in 0..MaxItems
    /\ qlen = seeded
    /\ made = seeded
    /\ queue_error = FALSE
    /\ nprocess = 0
    /\ open_conns = 0
    /\ ctl = [state |-> "start", i |-> 1]
    /\ pc = [w \in Threads |-> "new"]
    /\ rr = [w \in Threads |-> NoRR]
    /\ retry_count = [w \in Threads |-> 0]
    /\ woken = [w \in Threads |-> FALSE]
    /\ loc = [w \in Threads |-> NoLoc]

\* HTTPConnectionControl(handler, max_queues, max_conn) with any
\* configuration, shared by the ControlThreads.
Init ==
    /\ max_queues \in {None} \cup (0..MaxQueues)
    /\ max_conn \in {None} \cup (1..MaxConn)
    /\ REQUEST_LIMIT \in {None} \cup (1..MaxLimit)
    /\ Constructed

config == <<max_queues, max_conn, REQUEST_LIMIT, seeded>>

\* --------------------------------------------------------------- Controller
\* Controller.start(): thread.start() for each thread; run_crawle then calls
\* join().  A thread started later is a thread that takes its first step
\* later.
Controller_start ==
    /\ ctl.state = "start"
    /\ pc' = [w \in Threads |-> "loop"]
    /\ ctl' = [state |-> "join", i |-> 1]
    /\ UNCHANGED <<config, STOP_CRAWLE, stop_wait_event, cq_lru, locked, qlen,
                   made, queue_error, nprocess, open_conns, rr, retry_count,
                   woken, loc>>

\* A join that returns without waiting for the thread to end.
Controller_join_NoWait ==
    /\ ctl.state \in {"join", "stop"}
    /\ ctl' = IF ctl.i = NumThreads
              THEN [state |-> IF ctl.state = "stop" THEN "stopped" ELSE "joined",
                    i |-> 1]
              ELSE [ctl EXCEPT !.i = @ + 1]
    /\ UNCHANGED <<config, STOP_CRAWLE, stop_wait_event, cq_lru, locked, qlen,
                   made, queue_error, nprocess, open_conns, pc, rr,
                   retry_count, woken, loc>>

\* Controller.join(): thread.join(1) until the thread is not alive, for each
\* thread in turn.  In state "stop" the join is the one stop() makes.
Controller_join ==
    /\ ctl.state \in {"join", "stop"}
    /\ pc[ctl.i] = "done"
    /\ ctl' = IF ctl.i = NumThreads
              THEN [state |-> IF ctl.state = "stop" THEN "stopped" ELSE "joined",
                    i |-> 1]
              ELSE [ctl EXCEPT !.i = @ + 1]
    /\ UNCHANGED <<config, STOP_CRAWLE, stop_wait_event, cq_lru, locked, qlen,
                   made, queue_error, nprocess, open_conns, pc, rr,
                   retry_count, woken, loc>>

\* Controller.stop(), called when join() is interrupted (run_crawle).
Controller_stop ==
    /\ ctl.state = "join"
    /\ STOP_CRAWLE' = TRUE
    /\ ctl' = [state |-> "stop", i |-> 1]
    /\ UNCHANGED <<config, stop_wait_event, cq_lru, locked, qlen, made,
                   queue_error, nprocess, open_conns, pc, rr, retry_count,
                   woken, loc>>

\* Controller.crawl_finished()
crawl_finished == STOP_CRAWLE

\* ------------------------------------------------------ ControlThread.run
\* line 393: while not STOP_CRAWLE
Loop(w) ==
    /\ pc[w] = "loop"
    /\ pc' = [pc EXCEPT ![w] = IF STOP_CRAWLE THEN "done" ELSE "get"]
    /\ UNCHANGED <<config, STOP_CRAWLE, stop_wait_event, cq_lru, locked, qlen,
                   made, queue_error, nprocess, open_conns, ctl, rr,
                   retry_count, woken, loc>>

\* lines 394-402: queue.get() raises.
QueueGetRaises(w) ==
    /\ pc[w] = "get"
    /\ queue_error' = TRUE
    /\ STOP_CRAWLE' = TRUE
    /\ pc' = [pc EXCEPT ![w] = "done"]
    /\ UNCHANGED <<config, stop_wait_event, cq_lru, locked, qlen, made,
                   nprocess, open_conns, ctl, rr, retry_count, woken, loc>>

\* line 395 with lines 408 and 423: queue.get() returns a descriptor out of
\* D, or None when the queue is empty.
QueueGet(w, D) ==
    /\ pc[w] = "get"
    /\ \/ /\ qlen > 0
          /\ qlen' = qlen - 1
          /\ \E d \in D : rr' = [rr EXCEPT ![w] = d]
          /\ retry_count' = [retry_count EXCEPT ![w] = 0]
          /\ pc' = [pc EXCEPT ![w] = "req"]
       \/ /\ qlen = 0
          /\ rr' = [rr EXCEPT ![w] = NoRR]
          /\ pc' = [pc EXCEPT ![w] = "clear"]
          /\ UNCHANGED <<qlen, retry_count>>
    /\ UNCHANGED <<config, STOP_CRAWLE, stop_wait_event, cq_lru, locked, made,
                   queue_error, nprocess, open_conns, ctl, woken, loc>>

\* line 409: stop_wait_event.clear()
Clear(w) ==
    /\ pc[w] = "clear"
    /\ stop_wait_event' = FALSE
    /\ pc' = [pc EXCEPT ![w] = "wait"]
    /\ UNCHANGED <<config, STOP_CRAWLE, cq_lru, locked, qlen, made,
                   queue_error, nprocess, open_conns, ctl, rr, retry_count,
                   woken, loc>>

\* line 410: stop_wait_event.wait(EMPTY_QUEUE_WAIT) returns, at once when the
\* event is set and after the timeout otherwise.  woken observes whether the
\* event was set as the wait returned.
Wait(w) ==
    /\ pc[w] = "wait"
    /\ woken' = [woken EXCEPT ![w] = stop_wait_event]
    /\ pc' = [pc EXCEPT ![w] = "isset"]
    /\ UNCHANGED <<config, STOP_CRAWLE, stop_wait_event, cq_lru, locked, qlen,
                   made, queue_error, nprocess, open_conns, ctl, rr,
                   retry_count, loc>>

\* A worker that retries for ever instead of giving up.
IsSet_NeverGivesUp(w) ==
    /\ pc[w] = "isset"
    /\ woken' = [woken EXCEPT ![w] = FALSE]
    /\ pc' = [pc EXCEPT ![w] = "loop"]
    /\ retry_count' = [retry_count EXCEPT ![w] =
                          IF stop_wait_event \/ @ >= EMPTY_QUEUE_RETRYS
                          THEN @ ELSE @ + 1]
    /\ UNCHANGED <<config, STOP_CRAWLE, stop_wait_event, cq_lru, locked, qlen,
                   made, queue_error, nprocess, open_conns, ctl, rr, loc>>

\* lines 411-421
IsSet(w) ==
    /\ pc[w] = "isset"
    /\ woken' = [woken EXCEPT ![w] = FALSE]
    /\ IF stop_wait_event
       THEN /\ pc' = [pc EXCEPT ![w] = "loop"]
            /\ UNCHANGED <<retry_count, STOP_CRAWLE>>
       ELSE IF retry_count[w] < EMPTY_QUEUE_RETRYS
       THEN /\ retry_count' = [retry_count EXCEPT ![w] = @ + 1]
            /\ pc' = [pc EXCEPT ![w] = "loop"]
            /\ UNCHANGED STOP_CRAWLE
       ELSE /\ STOP_CRAWLE' = TRUE
            /\ pc' = [pc EXCEPT ![w] = "done"]
            /\ UNCHANGED retry_count
    /\ UNCHANGED <<config, stop_wait_event, cq_lru, locked, qlen, made,
                   queue_error, nprocess, open_conns, ctl, rr, loc>>

\* ------------------------------------------- HTTPConnectionControl.request
\* A worker that records the exception and skips handler.process.
Raise_SkipProcess(w, r, e) ==
    /\ rr' = [rr EXCEPT ![w] = [r EXCEPT !.error = e]]
    /\ pc' = [pc EXCEPT ![w] = "set_event"]

\* The worker catches whatever request() raises and stores it in
\* request_response.error (lines 424-427) before it calls handler.process.
Raise(w, r, e) ==
    /\ rr' = [rr EXCEPT ![w] = [r EXCEPT !.error = e]]
    /\ pc' = [pc EXCEPT ![w] = "process"]

\* A pipeline that consults the handler for the first hop only.
pre_process_FirstHopOnly(r, veto) ==
    IF r.nreq > 0 THEN r
    ELSE [r EXCEPT !.npre = @ + 1,
                   !.response_url = IF veto THEN NoUrl ELSE @]

\* line 286: self.handler.pre_process(req_res); the handler may veto the
\* request by setting response_url to None.
pre_process(r, veto) ==
    [r EXCEPT !.npre = @ + 1,
              !.response_url = IF veto THEN NoUrl ELSE @]

\* A pipeline without the test for the skip sentinel.
RequestAborted_Unchecked(r) == FALSE

\* line 287
RequestAborted(r) == r.response_url = NoUrl

\* lines 283-311, the entry of request() and of each recursive call: the
\* stop check, handler.pre_process (which may veto the URL), the scheme
\* check, gethostbyname (which may fail) and the header defaults.  When
\* request_headers is a non-empty mapping, headers is that very mapping and
\* the defaults are written into it.
ReqEntry(w) ==
    /\ pc[w] = "req"
    /\ IF STOP_CRAWLE
       THEN /\ Raise(w, rr[w], "Stopped")
            /\ loc' = [loc EXCEPT ![w] = NoLoc]
       ELSE \E veto \in BOOLEAN, resolved \in BOOLEAN :
            LET r == pre_process(rr[w], veto) IN
            IF RequestAborted(r)
            THEN /\ Raise(w, r, "Aborted")
                 /\ loc' = [loc EXCEPT ![w] = NoLoc]
            ELSE IF r.response_url \notin HttpUrls
            THEN /\ Raise(w, r, "UnsupportedScheme")
                 /\ loc' = [loc EXCEPT ![w] = NoLoc]
            ELSE IF ~resolved
            THEN /\ Raise(w, r, "Transport")
                 /\ loc' = [loc EXCEPT ![w] = NoLoc]
            ELSE LET headers == HeaderDefaults(r.request_headers,
                                               Hostname(r.response_url))
                 IN  /\ rr' = [rr EXCEPT ![w] =
                                 IF Truthy(r.request_headers)
                                 THEN [r EXCEPT !.request_headers = headers]
                                 ELSE r]
                     /\ loc' = [loc EXCEPT ![w] =
                                 [NoLoc EXCEPT !.key = EndpointKey(r.response_url),
                                               !.headers = headers]]
                     /\ pc' = [pc EXCEPT ![w] = "acquire"]
    /\ UNCHANGED <<config, STOP_CRAWLE, stop_wait_event, cq_lru, locked, qlen,
                   made, queue_error, nprocess, open_conns, ctl, retry_count,
                   woken>>

\* line 314: connection = self.cq_lru[(address, encrypted)]; blocks while
\* the lock is held.
Acquire(w) ==
    /\ pc[w] = "acquire"
    /\ ~locked
    /\ LET g == CQueueLRU_getitem(cq_lru, loc[w].key)
       IN  /\ cq_lru' = g.lru
           /\ open_conns' = open_conns + g.created - g.nclosed
           /\ loc' = [loc EXCEPT ![w].connection = g.connection,
                                 ![w].leased = TRUE,
                                 ![w].reset = (g.nclosed = 1)]
    /\ pc' = [pc EXCEPT ![w] = "io"]
    /\ UNCHANGED <<config, STOP_CRAWLE, stop_wait_event, locked, qlen, made,
                   queue_error, nprocess, ctl, rr, retry_count, woken>>

\* lines 317-320: the headers and the descriptor as connection.request is
\* called.
Sent(l, r) ==
    LET headers == ContentType(l.headers, r.request_params)
    IN  [loc |-> [l EXCEPT !.headers = headers, !.dispatched = TRUE],
         rr |-> [r EXCEPT !.nreq = @ + 1,
                          !.request_headers = IF Truthy(@) THEN headers ELSE @]]

\* lines 317-326 and 328-330 when urlencode, connection.request, getresponse
\* or read raises: request() closes the connection and re-raises.
SendFails(w) ==
    /\ pc[w] = "io"
    /\ LET s == Sent(loc[w], rr[w])
       IN  /\ loc' = [loc EXCEPT ![w] = [s.loc EXCEPT !.closed = @ + 1,
                                                     !.connection = NoConn]]
           /\ Raise(w, s.rr, "Transport")
    /\ open_conns' = open_conns - 1
    /\ UNCHANGED <<config, STOP_CRAWLE, stop_wait_event, cq_lru, locked, qlen,
                   made, queue_error, nprocess, ctl, retry_count, woken>>

\* lines 332-339: the response is a redirect and the descriptor has a budget.
IsRedirect(r, status) == status \in RedirectStatuses /\ r.redirects # None

\* A budget test that allows one hop more.
BudgetExhausted_Below(r) == r.redirects < 0

\* line 333
BudgetExhausted(r) == r.redirects <= 0

\* lines 340-363: the terminal response.  decode is how the body is decoded:
\* "plain" (no gzip), "gzip" (in process), "zcat" (IOError, then zcat) or
\* "raise" (the decoder raises something request() does not catch).
Decodings == {"plain", "gzip", "zcat", "raise"}
Terminal(r, status, decode) ==
    LET r1 == [r EXCEPT !.response_status = status]
    IN  CASE decode = "raise" -> [r1 EXCEPT !.error = "Transport"]
          [] decode = "zcat" -> [r1 EXCEPT !.response_body = TRUE,
                                           !.extra = Append(@, "Used zcat")]
          [] OTHER -> [r1 EXCEPT !.response_body = TRUE]

\* lines 317-327 and 332-363 when the send and the read succeed (they touch
\* nothing the threads share, so the step is taken as the response has been
\* read): self.cq_lru[(address, encrypted)] = connection, which blocks while
\* the lock is held, then the redirect or the terminal response.  When
\* __setitem__ raises, the lock stays held and request() closes the
\* connection and re-raises (lines 328-330).
Release(w) ==
    /\ pc[w] = "io"
    /\ ~locked
    /\ \E status \in Statuses :
       LET sent == Sent(loc[w], rr[w])
           s == CQueueLRU_setitem(cq_lru, loc[w].key, loc[w].connection)
           r == sent.rr
           l == [sent.loc EXCEPT !.status = status, !.released = @ + 1,
                                 !.connection = NoConn,
                                 !.evicted = Cardinality(cq_lru.table \ s.lru.table)]
       IN  /\ cq_lru' = s.lru
           /\ locked' = s.raised
           /\ IF s.raised
              THEN /\ loc' = [loc EXCEPT ![w] = [l EXCEPT !.closed = @ + 1]]
                   /\ open_conns' = open_conns - s.nclosed - 1
                   /\ Raise(w, r, "AttributeError")
              ELSE /\ loc' = [loc EXCEPT ![w] =
                               [l EXCEPT !.pool_closed = s.put_closed]]
                   /\ open_conns' = open_conns - s.nclosed
                   /\ IF IsRedirect(r, status)
                      THEN IF BudgetExhausted(r)
                           THEN Raise(w, r, "RedirectsExceeded")
                           ELSE \E location \in Urls :
                                /\ rr' = [rr EXCEPT ![w] =
                                           [r EXCEPT !.redirects = @ - 1,
                                                     !.response_url = location]]
                                /\ pc' = [pc EXCEPT ![w] = "req"]
                      ELSE \E decode \in Decodings :
                           /\ rr' = [rr EXCEPT ![w] = Terminal(r, status, decode)]
                           /\ pc' = [pc EXCEPT ![w] = "process"]
    /\ UNCHANGED <<config, STOP_CRAWLE, stop_wait_event, qlen, made,
                   queue_error, nprocess, ctl, retry_count, woken>>

\* line 428: handler.process(request_response, self.queue); the handler may
\* put an item on the queue.  The worker reads nothing of the descriptor
\* afterwards, so only its error and the count of process calls are kept.
Process(w) ==
    /\ pc[w] = "process"
    /\ nprocess' = nprocess + 1
    /\ rr' = [rr EXCEPT ![w] = [NoRR EXCEPT !.processed = rr[w].processed + 1,
                                            !.error = rr[w].error]]
    /\ loc' = [loc EXCEPT ![w] = NoLoc]
    /\ \E put \in {0, 1} :
          /\ made + put <= MaxItems
          /\ made' = made + put
          /\ qlen' = qlen + put
    /\ pc' = [pc EXCEPT ![w] = "set_event"]
    /\ UNCHANGED <<max_queues, max_conn, REQUEST_LIMIT, seeded, STOP_CRAWLE,
                   stop_wait_event, cq_lru, locked, queue_error, open_conns,
                   ctl, retry_count, woken>>

\* A worker that takes the work just done as a sign that the crawl goes on
\* and lowers the stop flag as it sets the event.
SetEvent_ClearsStop(w) ==
    /\ pc[w] = "set_event"
    /\ stop_wait_event' = TRUE
    /\ STOP_CRAWLE' = FALSE
    /\ rr' = [rr EXCEPT ![w] = NoRR]
    /\ pc' = [pc EXCEPT ![w] = "loop"]
    /\ UNCHANGED <<config, cq_lru, locked, qlen, made, queue_error, nprocess,
                   open_conns, ctl, retry_count, woken, loc>>

\* line 430: stop_wait_event.set(); the descriptor is not used again.
SetEvent(w) ==
    /\ pc[w] = "set_event"
    /\ stop_wait_event' = TRUE
    /\ rr' = [rr EXCEPT ![w] = NoRR]
    /\ pc' = [pc EXCEPT ![w] = "loop"]
    /\ UNCHANGED <<config, STOP_CRAWLE, cq_lru, locked, qlen, made,
                   queue_error, nprocess, open_conns, ctl, retry_count, woken,
                   loc>>

\* ------------------------------------------------------------------- Next
Worker(w) ==
    \/ Loop(w) \/ QueueGetRaises(w) \/ QueueGet(w, QueueDescriptors)
    \/ Clear(w) \/ Wait(w) \/ IsSet(w)
    \/ ReqEntry(w) \/ Acquire(w) \/ SendFails(w) \/ Release(w)
    \/ Process(w) \/ SetEvent(w)

Next ==
    \/ Controller_start
    \/ Controller_join
    \/ Controller_stop
    \/ \E w \in Threads : Worker(w)

Spec == Init /\ [][Next]_vars

\* Controller.__init__ (lines 446-457): max_conn is num_threads, max_queues is
\* nofiles * 2 / (num_threads * 3), which is 0 once num_threads * 3 exceeds
\* nofiles * 2, and REQUEST_LIMIT keeps its class default.
InitController ==
    /\ max_conn = NumThreads
    /\ max_queues \in 0..MaxQueues
    /\ REQUEST_LIMIT = None
    /\ Constructed

\* Every started thread keeps being scheduled, and the Controller keeps
\* running start() and join(); stop() and the failures are not forced.
Fairness ==
    /\ \A w \in Threads : WF_vars(Worker(w))
    /\ WF_vars(Controller_start)
    /\ WF_vars(Controller_join)

SpecController == InitController /\ [][Next]_vars
FairSpec == SpecController /\ Fairness

\* A direct call of HTTPConnectionControl.request on a descriptor built by
\* the caller, as quick_request makes it (lines 615-617): one caller, cache
\* and pools unbounded.  The call has ended when pc is "process".
Caller == 1
InitRequest ==
    /\ max_queues = None
    /\ max_conn = None
    /\ REQUEST_LIMIT = None
    /\ Constructed
    /\ seeded = 0

RequestCall ==
    /\ ctl.state = "start"
    /\ pc[Caller] = "new"
    /\ \E d \in HeaderDescriptors : rr' = [rr EXCEPT ![Caller] = d]
    /\ pc' = [pc EXCEPT ![Caller] = "req"]
    /\ UNCHANGED <<config, STOP_CRAWLE, stop_wait_event, cq_lru, locked, qlen,
                   made, queue_error, nprocess, open_conns, ctl, retry_count,
                   woken, loc>>

NextRequest ==
    \/ RequestCall
    \/ ReqEntry(Caller)
    \/ Acquire(Caller)
    \/ SendFails(Caller)
    \/ Release(Caller)

SpecRequest == InitRequest /\ [][NextRequest]_vars

\* Threads that use the shared cache for any endpoint, taken from line 314
\* of request() on: the lease, the send and read, the release or the close.
\* The request limit is configured, so that request_count stays bounded.
InitLRU ==
    /\ max_queues \in {None} \cup (0..(Cardinality(Keys) - 1))
    /\ max_conn \in {None} \cup (1..MaxConn)
    /\ REQUEST_LIMIT \in 1..MaxLimit
    /\ Constructed
    /\ seeded = 0

\* A thread reaches line 314 with the key of some endpoint.
LeaseFor(w) ==
    /\ ctl.state = "start"
    /\ pc[w] = "new"
    /\ \E key \in Keys : loc' = [loc EXCEPT ![w] = [NoLoc EXCEPT !.key = key]]
    /\ pc' = [pc EXCEPT ![w] = "acquire"]
    /\ UNCHANGED <<config, STOP_CRAWLE, stop_wait_event, cq_lru, locked, qlen,
                   made, queue_error, nprocess, open_conns, ctl, rr,
                   retry_count, woken>>

\* request() has returned or raised; the thread forgets the call.
Returns(w) ==
    /\ ctl.state = "start"
    /\ pc[w] = "process"
    /\ rr' = [rr EXCEPT ![w] = NoRR]
    /\ loc' = [loc EXCEPT ![w] = NoLoc]
    /\ pc' = [pc EXCEPT ![w] = "new"]
    /\ UNCHANGED <<config, STOP_CRAWLE, stop_wait_event, cq_lru, locked, qlen,
                   made, queue_error, nprocess, open_conns, ctl, retry_count,
                   woken>>

NextLRU ==
    \E w \in Threads :
        \/ LeaseFor(w)
        \/ Acquire(w)
        \/ SendFails(w)
        \/ Release(w)
        \/ Returns(w)

SpecLRU == InitLRU /\ [][NextLRU]_vars

\* ------------------------------------------------------------ properties
InPipeline(w) == pc[w] \in {"req", "acquire", "io"}
AllDone == \A w \in Threads : pc[w] = "done"

\* An attempt of worker w has ended: a connection was leased for the hop and
\* the send and read have succeeded or failed.
AttemptOver(w) == loc[w].leased /\ pc[w] # "io"

\* C1: for every attempt that has ended, the leased connection was either
\* handed to cq_lru.__setitem__ exactly once and not closed by request(), or
\* closed by request() exactly once and not handed to __setitem__.
C1_ReleasedXorClosed ==
    \A w \in Threads :
        AttemptOver(w) =>
            \/ loc[w].released = 1 /\ loc[w].closed = 0
            \/ loc[w].released = 0 /\ loc[w].closed = 1

\* C2: when max_queues is configured the table holds at most max_queues keys.
C2_TableBound ==
    max_queues # None => Cardinality(cq_lru.table) <= max_queues

\* A release at capacity has evicted an endpoint and the table is full.
C2_Witness ==
    /\ max_queues = MaxQueues
    /\ Cardinality(cq_lru.table) = max_queues
    /\ \E w \in Threads : loc[w].evicted = 1

\* C3: when max_conn is configured no pool queues more than max_conn idle
\* connections, and a release whose put finds the pool full closes the
\* connection and leaves the queue as it was, while any other release queues
\* it.
C3_IdleBound ==
    \A k \in Keys :
        max_conn # None => Len(cq_lru.pool[k].queue) <= max_conn

C3_Put(w) ==
    LET k == loc[w].key
        before == IF k \in cq_lru.table THEN Len(cq_lru.pool[k].queue) ELSE 0
        after == Len(cq_lru'.pool[k].queue)
    IN  (loc'[w].released = loc[w].released + 1 /\ ~locked') =>
            IF max_conn # None /\ before + 1 > max_conn
            THEN after = before /\ loc'[w].pool_closed = 1
            ELSE after = before + 1 /\ loc'[w].pool_closed = 0

C3_IdleCap == []C3_IdleBound /\ [][\A w \in Threads : C3_Put(w)]_vars

\* A put has closed a returned connection because its pool was full.
C3_Witness ==
    \E w \in Threads :
        /\ loc[w].pool_closed = 1
        /\ Len(cq_lru.pool[loc[w].key].queue) = max_conn

C5_Bound ==
    \A w \in Threads :
        rr[w].redirects0 # None =>
            /\ rr[w].nreq <= rr[w].redirects0 + 1
            /\ rr[w].redirects >= 0
            /\ (pc[w] = "process" /\ loc[w].status \in RedirectStatuses
                    /\ loc[w].closed = 0) =>
                  /\ rr[w].error = "RedirectsExceeded"
                  /\ rr[w].nreq = rr[w].redirects0 + 1
                  /\ rr[w].redirects = 0
            /\ rr[w].error = "RedirectsExceeded" =>
                  rr[w].nreq = rr[w].redirects0 + 1

Followed(w) == pc[w] = "io" /\ pc'[w] = "req"

C5_Step(w) ==
    (InPipeline(w) /\ rr[w].redirects0 # None) =>
        IF Followed(w)
        THEN rr'[w].redirects = rr[w].redirects - 1
        ELSE pc'[w] \in {"req", "acquire", "io", "process"} =>
                rr'[w].redirects = rr[w].redirects

C5_RedirectBudget == []C5_Bound /\ [][\A w \in Threads : C5_Step(w)]_vars

\* A chain has used up the largest budget.
C5_Witness ==
    \E w \in Threads :
        /\ pc[w] = "process"
        /\ rr[w].error = "RedirectsExceeded"
        /\ rr[w].redirects0 = MaxRedirects
        /\ rr[w].nreq = MaxRedirects + 1

\* C6: every descriptor pulled from the queue is either still in the
\* pipeline or waiting for handler.process, with no process call made for it,
\* or has been passed to handler.process exactly once; so the process calls
\* made are the descriptors pulled less those still in flight.
InFlight == {w \in Threads : pc[w] \in {"req", "acquire", "io", "process"}}

C6_ProcessOnce ==
    /\ nprocess + Cardinality(InFlight) = made - qlen
    /\ \A w \in Threads :
          /\ w \in InFlight => rr[w].processed = 0
          /\ pc[w] = "set_event" => rr[w].processed = 1
          /\ rr[w].processed <= 1

\* handler.process has been called for a descriptor whose fetch was refused
\* because the stop flag was set after the pull.
C6_Witness ==
    \E w \in Threads :
        /\ pc[w] = "set_event"
        /\ rr[w].processed = 1
        /\ rr[w].error = "Stopped"

\* Every fetch a worker starts returns: no worker stays in request() for
\* ever.
FetchesReturn == \A w \in Threads : []<>~InPipeline(w)
StopCalled == ctl.state \in {"stop", "stopped"}

\* C7: when stop() has returned every worker has terminated, none is in
\* request() and none holds a connection; and, if every fetch returns, a
\* stop() that was called returns.
C7_AfterStop ==
    ctl.state = "stopped" =>
        /\ AllDone
        /\ \A w \in Threads : ~InPipeline(w) /\ loc[w].connection = NoConn

C7_StopConverges ==
    /\ []C7_AfterStop
    /\ FetchesReturn => (ctl.state = "stop" ~> ctl.state = "stopped")

\* stop() has returned after it cut a crawl short: descriptors were
\* processed and others are left in the queue.
C7_Witness ==
    /\ ctl.state = "stopped"
    /\ nprocess > 0
    /\ qlen > 0

\* C8: a default header the caller set is dispatched with the caller's value.
DefaultHeaders ==
    {"Accept", "Accept-Encoding", "Accept-Language", "Host", "User-Agent"}

CallerValueKept(w, h) ==
    (loc[w].dispatched /\ rr[w].caller_headers[h] # Absent) =>
        loc[w].headers[h] = rr[w].caller_headers[h]

C8_CallerHeadersKept ==
    \A w \in Threads : \A h \in DefaultHeaders : CallerValueKept(w, h)

\* C9: without stop(), queue error or re-queue, once the workers have
\* terminated handler.process has been called once per seeded descriptor,
\* the queue is empty and crawl_finished() is true; and, if every fetch
\* returns, every worker terminates.
Undisturbed == ~StopCalled /\ ~queue_error /\ made = seeded

C9_AtExit ==
    (AllDone /\ Undisturbed) =>
        /\ nprocess = seeded
        /\ qlen = 0
        /\ crawl_finished

C9_EmptyQueueShutdown ==
    /\ []C9_AtExit
    /\ (FetchesReturn /\ []Undisturbed) => <>AllDone

\* The workers have terminated on their own after the largest seed was
\* processed.
C9_Witness ==
    /\ AllDone
    /\ Undisturbed
    /\ seeded = MaxItems
    /\ nprocess = MaxItems

\* C10: without stop() and queue error, once all workers have terminated the
\* queue is empty.
C10_DrainedAtExit ==
    (AllDone /\ ~StopCalled /\ ~queue_error) => qlen = 0

\* C11: when the worker has run the pipeline and recorded any exception,
\* either response_status and response_body are set and error is unset, or
\* error is set and response_status and response_body are unset.
C11_Outcome(r) ==
    \/ r.response_status # None /\ r.response_body /\ r.error = NoError
    \/ r.response_status = None /\ ~r.response_body /\ r.error # NoError

C11_StatusXorError ==
    \A w \in Threads : pc[w] = "process" => C11_Outcome(rr[w])

\* C12: no step lowers the stop flag once it is true.
C12_StopLatches == [][STOP_CRAWLE => STOP_CRAWLE']_vars

\* The flag was raised by the empty-queue path while another worker was
\* still inside its iteration, and that worker went on to handler.process.
C12_Witness ==
    /\ STOP_CRAWLE
    /\ ~StopCalled
    /\ ~queue_error
    /\ \E w \in Threads : pc[w] = "set_event"

\* C13: when pre_process leaves response_url at the skip sentinel, that step
\* of the pipeline ends the call with CrawleRequestAborted: nothing is
\* resolved, no connection is acquired, no request is sent and the cache is
\* untouched; and the descriptor is passed to handler.process exactly once
\* with error still that exception.
C13_VetoStep(w) ==
    (/\ pc[w] = "req"
     /\ rr'[w].npre = rr[w].npre + 1
     /\ rr'[w].response_url = NoUrl) =>
        /\ pc'[w] = "process"
        /\ rr'[w].error = "Aborted"
        /\ rr'[w].nreq = rr[w].nreq
        /\ loc'[w] = NoLoc
        /\ cq_lru' = cq_lru
        /\ open_conns' = open_conns

C13_ProcessStep(w) ==
    (/\ pc[w] = "process"
     /\ rr[w].error = "Aborted"
     /\ pc'[w] # "process") =>
        /\ nprocess' = nprocess + 1
        /\ rr'[w].processed = 1
        /\ rr'[w].error = "Aborted"

C13_Aborted ==
    \A w \in Threads :
        /\ rr[w].response_url = NoUrl /\ pc[w] = "process" =>
              rr[w].error = "Aborted"
        /\ rr[w].error = "Aborted" =>
              /\ pc[w] \in {"process", "set_event"}
              /\ ~loc[w].leased /\ ~loc[w].dispatched
              /\ rr[w].processed = IF pc[w] = "process" THEN 0 ELSE 1

C13_VetoAborts ==
    /\ []C13_Aborted
    /\ [][\A w \in Threads : C13_VetoStep(w) /\ C13_ProcessStep(w)]_vars

\* A descriptor vetoed on its first hop has been passed to handler.process.
C13_Witness ==
    \E w \in Threads :
        /\ pc[w] = "set_event"
        /\ rr[w].error = "Aborted"
        /\ rr[w].processed = 1
        /\ open_conns = 0

\* C14: every hop starts with the stop check and then pre_process, before a
\* connection is acquired for it.  With k the redirects followed so far, a
\* hop past its entry has seen k + 1 pre_process calls and k requests; a hop
\* entered with the stop flag set ends the call with CrawleStopped without
\* pre_process and without a request; and a veto on a redirect target ends
\* the call with CrawleRequestAborted without a request for the target.
FollowedSoFar(r) ==
    IF r.redirects0 = None THEN 0 ELSE r.redirects0 - r.redirects

C14_Hops ==
    \A w \in Threads :
        LET k == FollowedSoFar(rr[w]) IN
        /\ pc[w] = "req" => rr[w].npre = k /\ rr[w].nreq = k
        /\ pc[w] \in {"acquire", "io"} =>
              rr[w].npre = k + 1 /\ rr[w].nreq = k
        /\ pc[w] = "process" =>
              rr[w].npre = IF rr[w].error = "Stopped" THEN k ELSE k + 1

C14_Entry(w) ==
    pc[w] = "req" /\ pc'[w] # "req" =>
        /\ ~loc'[w].leased
        /\ cq_lru' = cq_lru
        /\ rr'[w].nreq = rr[w].nreq
        /\ IF STOP_CRAWLE
           THEN /\ pc'[w] = "process"
                /\ rr'[w].error = "Stopped"
                /\ rr'[w].npre = rr[w].npre
           ELSE /\ rr'[w].npre = rr[w].npre + 1
                /\ rr'[w].response_url = NoUrl =>
                      pc'[w] = "process" /\ rr'[w].error = "Aborted"

C14_Lease(w) ==
    (loc'[w].leased /\ ~loc[w].leased) => pc[w] = "acquire"

C14_HopEntry ==
    /\ []C14_Hops
    /\ [][\A w \in Threads : C14_Entry(w) /\ C14_Lease(w)]_vars

\* The stop flag was raised during a chain: the hop after a followed
\* redirect has failed with CrawleStopped.
C14_Witness ==
    \E w \in Threads :
        /\ pc[w] = "process"
        /\ rr[w].error = "Stopped"
        /\ rr[w].nreq = 1
        /\ rr[w].npre = 1
        /\ rr[w].redirects = rr[w].redirects0 - 1

\* The tracked keys from the most to the least recently released, read off
\* the list from newest along next.
RECURSIVE Walk(_, _, _)
Walk(l, node, n) ==
    IF node = NoKey \/ n = 0 THEN <<>>
    ELSE <<node>> \o Walk(l, l.next[node], n - 1)

Recency(l) == Walk(l, l.newest, Cardinality(Keys) + 1)
Without(s, k) == SelectSeq(s, LAMBDA x : x # k)
KeysOf(s) == {s[i] : i \in 1..Len(s)}

\* C15: after a release of key k has returned, k is the newest entry; a
\* tracked k moves to the front and the other keys keep their order; an
\* untracked k is put in front, and when the table was at capacity the key
\* dropped is the last of the order, the others keeping theirs.
C15_Release(w) ==
    (loc'[w].released = loc[w].released + 1 /\ ~locked') =>
        LET k == loc[w].key
            before == Recency(cq_lru)
            after == Recency(cq_lru')
        IN  /\ cq_lru'.newest = k
            /\ KeysOf(after) = cq_lru'.table
            /\ after =
                  IF k \in cq_lru.table THEN <<k>> \o Without(before, k)
                  ELSE IF max_queues # None /\ Len(before) = max_queues
                  THEN <<k>> \o SubSeq(before, 1, Len(before) - 1)
                  ELSE <<k>> \o before

C15_LRUOrder == [][\A w \in Threads : C15_Release(w)]_vars

\* With room for two endpoints and two tracked, a release of a third key
\* has evicted one and the released key is the newest of the two kept.
C15_Witness ==
    \E w \in Threads :
        /\ max_queues = 2
        /\ loc[w].evicted = 1
        /\ loc[w].released = 1
        /\ Len(Recency(cq_lru)) = 2
        /\ cq_lru.newest = loc[w].key

\* C16: a lease (__getitem__) leaves the table and the list as they are and
\* touches no pool but the key's: for an untracked key the cache is
\* unchanged and the connection is a fresh one; for a tracked key at most
\* the head of the pool's queue is removed.  The table gains a key only in
\* a release.
C16_Lease(w) ==
    (loc'[w].leased /\ ~loc[w].leased) =>
        LET k == loc[w].key
            q == cq_lru.pool[k].queue
        IN  /\ cq_lru'.table = cq_lru.table
            /\ cq_lru'.next = cq_lru.next
            /\ cq_lru'.prev = cq_lru.prev
            /\ cq_lru'.newest = cq_lru.newest
            /\ cq_lru'.oldest = cq_lru.oldest
            /\ \A j \in Keys \ {k} : cq_lru'.pool[j] = cq_lru.pool[j]
            /\ IF k \notin cq_lru.table
               THEN /\ cq_lru' = cq_lru
                    /\ loc'[w].connection = connection_object
                    /\ open_conns' = open_conns + 1
               ELSE cq_lru'.pool[k].queue = IF q = <<>> THEN q ELSE Tail(q)

C16_Born ==
    ~(cq_lru'.table \subseteq cq_lru.table) =>
        \E w \in Threads : loc'[w].released = loc[w].released + 1

C16_GetItemFrame == [][C16_Born /\ \A w \in Threads : C16_Lease(w)]_vars

\* A lease has taken a used connection out of the pool of a tracked key
\* while another endpoint is tracked as well.
C16_Witness ==
    \E w \in Threads :
        /\ pc[w] = "io"
        /\ loc[w].key \in cq_lru.table
        /\ loc[w].connection.request_count = 1
        /\ cq_lru.pool[loc[w].key].queue = <<>>
        /\ Cardinality(cq_lru.table) = 2

\* The connections idle in the pools of the keys in S.
RECURSIVE Idle(_, _)
Idle(l, S) ==
    IF S = {} THEN 0
    ELSE LET k == CHOOSE x \in S : TRUE
         IN  Len(l.pool[k].queue) + Idle(l, S \ {k})

Leased == {w \in Threads : loc[w].connection # NoConn}

\* C17: the connections created and not closed are those leased, one to
\* each request between its lease and its release or close, and those idle
\* in the pools of tracked keys; the pool of an untracked key holds nothing,
\* and a key that leaves the table leaves its pool empty.  (A closed
\* connection left in a pool, or an open one dropped, breaks the count.)
C17_Accounted ==
    /\ open_conns = Cardinality(Leased) + Idle(cq_lru, cq_lru.table)
    /\ \A w \in Threads : w \in Leased <=> pc[w] = "io"
    /\ \A k \in Keys \ cq_lru.table : cq_lru.pool[k].queue = <<>>
    /\ \A k \in Keys : \A i \in 1..Len(cq_lru.pool[k].queue) :
          ~cq_lru.pool[k].queue[i].closed

C17_Evict ==
    \A k \in cq_lru.table \ cq_lru'.table :
        /\ cq_lru'.pool[k].queue = <<>>
        /\ open_conns - open_conns' >= Len(cq_lru.pool[k].queue)

C17_NoLeaks == []C17_Accounted /\ [][C17_Evict]_vars

\* Two descriptors were pulled and one worker made both the requests; the
\* release of the second evicted the endpoint of the first, whose idle
\* connection was closed: of the two connections created one is left.
C17_Witness ==
    \E w \in Threads :
        /\ max_queues = 1
        /\ REQUEST_LIMIT = None
        /\ loc[w].evicted = 1
        /\ pc[w] = "process"
        /\ nprocess = 1
        /\ made - qlen = 2
        /\ \A v \in Threads \ {w} : pc[v] \in {"loop", "get"}
        /\ open_conns = 1

\* C18: a worker whose wait returned because the event was set after the
\* worker had cleared it goes back to the loop with its retry counter and
\* the stop flag as they were; the counter is incremented and the flag
\* latched only after a wait during which no set occurred.
C18_AfterWait(w) ==
    (pc[w] = "isset" /\ pc'[w] # "isset" /\ woken[w]) =>
        /\ pc'[w] = "loop"
        /\ retry_count'[w] = retry_count[w]
        /\ STOP_CRAWLE' = STOP_CRAWLE

C18_WokenNoRetry == [][\A w \in Threads : C18_AfterWait(w)]_vars

\* C19: the step in which queue.get raises latches the stop flag and ends
\* the worker with no pipeline call and no handler.process call; with the
\* flag set no worker starts another iteration; and once queue.get has
\* raised every worker eventually terminates.
C19_RaiseStep(w) ==
    (pc[w] = "get" /\ queue_error' /\ ~queue_error /\ pc'[w] # "get") =>
        /\ STOP_CRAWLE'
        /\ pc'[w] = "done"
        /\ nprocess' = nprocess
        /\ rr'[w] = rr[w]
        /\ loc'[w] = loc[w]

C19_NoNewIteration(w) ==
    (STOP_CRAWLE /\ pc[w] = "loop") => pc'[w] \in {"loop", "done"}

C19_QueueError ==
    /\ [][\A w \in Threads : C19_RaiseStep(w) /\ C19_NoNewIteration(w)]_vars
    /\ [](queue_error => STOP_CRAWLE)
    /\ queue_error ~> AllDone

\* C20: when the caller set no Host header, every request is sent with a
\* Host header equal to the hostname of the URL requested on that hop.
C20_Dispatch(w) ==
    (/\ rr'[w].nreq = rr[w].nreq + 1
     /\ rr[w].caller_headers["Host"] = Absent) =>
        loc'[w].headers["Host"] = Hostname(rr[w].response_url)

C20_HostPerHop == [][\A w \in Threads : C20_Dispatch(w)]_vars

\* C21: the list is well formed: following next from newest visits exactly
\* the keys of the table, each once, and ends at oldest, whose next is
\* empty; prev is the inverse of next and the prev of newest is empty;
\* newest and oldest are empty exactly when the table is.
C21_WellFormed ==
    LET l == cq_lru
        chain == Recency(l)
        n == Len(chain)
    IN  /\ KeysOf(chain) = l.table
        /\ n = Cardinality(l.table)
        /\ (l.newest = NoKey) <=> (l.table = {})
        /\ (l.oldest = NoKey) <=> (l.table = {})
        /\ n > 0 =>
              /\ chain[n] = l.oldest
              /\ l.next[l.oldest] = NoKey
              /\ l.prev[l.newest] = NoKey
        /\ \A i \in 1..(n - 1) : l.prev[chain[i + 1]] = chain[i]
        /\ \A k \in l.table :
              l.prev[k] # NoKey => l.next[l.prev[k]] = k

\* Every key is tracked, and the newest has been released again since it
\* was inserted: its pool holds two connections.
C21_Witness ==
    /\ cq_lru.table = Keys
    /\ Len(cq_lru.pool[cq_lru.newest].queue) = 2
    /\ Len(cq_lru.pool[cq_lru.oldest].queue) = 1

\* C22: when no call of __getitem__ or __setitem__ is in progress the cache
\* lock is not held, whether the last call returned or raised; a worker
\* waiting for the lock is therefore never blocked by a call that has
\* ended.
C22_LockFree == ~locked

\* The connections of endpoint k that are open: idle in its pool or leased
\* by a worker for it.
LeasedFor(k) == {w \in Leased : loc[w].key = k}
OpenFor(k) == Len(cq_lru.pool[k].queue) + Cardinality(LeasedFor(k))

\* C23: with max_conn = num_threads and max_queues >= 1, a worker holds no
\* connection when it enters a hop or asks for a lease; no endpoint has
\* more than num_threads open connections; and no release takes the branch
\* of put() that closes the returned connection.
C23_Capacity ==
    (max_conn = NumThreads /\ max_queues # None /\ max_queues >= 1) =>
        /\ \A w \in Threads :
              /\ pc[w] \in {"req", "acquire"} => w \notin Leased
              /\ loc[w].pool_closed = 0
        /\ \A k \in Keys : OpenFor(k) <= NumThreads

\* Every worker has released a connection to the same endpoint: its pool is
\* at capacity.
C23_Witness ==
    /\ max_conn = NumThreads
    /\ max_queues >= 1
    /\ \E k \in Keys : Len(cq_lru.pool[k].queue) = NumThreads

====
